---- MODULE Spec2Model ----
(***************************************************************************)
(* Model of typesense_integration.models.TypesenseCollection: the          *)
(* derivation of a Typesense collection schema from the field catalogue of *)
(* a Django model under the selection options of CollectionParams.         *)
(* A behaviour is one call of TypesenseCollection.__init__: the initial    *)
(* state holds the keyword arguments, every action is one statement group  *)
(* of __init__, and the run ends in pc = "done" or pc = "failed".          *)
(***************************************************************************)
EXTENDS Integers, Sequences, FiniteSets, TLC

VARIABLES
    kwargs,         \* the keyword arguments of the call (CollectionParams)
    index_display,  \* the set display the caller wrote for index_fields
    self,           \* the attributes of the TypesenseCollection under construction
    pc,             \* the statement of __init__ that runs next
    error,          \* the exception that ended the call, "none" if none
    warned,         \* the warnings issued by warnings.warn, in order
    mode,           \* which branch _handle_fields took
    caller,         \* the members of the set objects the caller passed
    refs            \* the set object each attribute of self is bound to

vars == <<kwargs, index_display, self, pc, error, warned, mode, caller, refs>>

(***************************************************************************)
(* Bound of the explored inputs: the number of arguments, members of set   *)
(* arguments and flags a call supplies beyond the model.                   *)
(***************************************************************************)
MaxPicks == 3

(***************************************************************************)
(* The entity catalogue: Django field descriptors.  A descriptor is        *)
(* identified by its position in FieldCatalogue (identity, not name).      *)
(* Reverse relations (ManyToOneRel) are listed with the model they are     *)
(* attached to.  The entities are those of tests/collections/models.py     *)
(* and tests/schema_validation/models.py, cut down to the fields used,     *)
(* with Category (a foreign key to itself), Ticket (a foreign key to a     *)
(* primary key not named id), Profile/Account (one-to-one) and Measure     *)
(* (decimal fields at the edges of handle_decimal_field) added.            *)
(***************************************************************************)
Scalar(model, name, cls, pk, null) ==
    [model |-> model, name |-> name, cls |-> cls, primary_key |-> pk,
     null |-> null, related_model |-> "", related_fields |-> <<>>,
     max_digits |-> 0, decimal_places |-> 0]

Decimal(model, name, null, digits, places) ==
    [model |-> model, name |-> name, cls |-> "DecimalField", primary_key |-> FALSE,
     null |-> null, related_model |-> "", related_fields |-> <<>>,
     max_digits |-> digits, decimal_places |-> places]

Relation(model, name, cls, null, target, target_fields) ==
    [model |-> model, name |-> name, cls |-> cls, primary_key |-> FALSE,
     null |-> null, related_model |-> target, related_fields |-> target_fields,
     max_digits |-> 0, decimal_places |-> 0]

FieldCatalogue == <<
    (* 1*) Scalar("Author", "id", "BigAutoField", TRUE, FALSE),
    (* 2*) Scalar("Author", "name", "CharField", FALSE, FALSE),
    (* 3*) Scalar("Author", "birth_date", "DateField", FALSE, FALSE),
    (* 4*) Relation("Author", "book", "ManyToOneRel", TRUE, "Book", <<1>>),
    (* 5*) Scalar("Book", "id", "BigAutoField", TRUE, FALSE),
    (* 6*) Scalar("Book", "title", "CharField", FALSE, FALSE),
    (* 7*) Scalar("Book", "published_date", "DateField", FALSE, FALSE),
    (* 8*) Relation("Book", "author", "ForeignKey", FALSE, "Author", <<1>>),
    (* 9*) Relation("Book", "chapter", "ManyToOneRel", TRUE, "Chapter", <<5>>),
    (*10*) Scalar("Chapter", "id", "BigAutoField", TRUE, FALSE),
    (*11*) Scalar("Chapter", "title", "CharField", FALSE, FALSE),
    (*12*) Relation("Chapter", "book", "ForeignKey", FALSE, "Book", <<5>>),
    (*13*) Scalar("Category", "id", "BigAutoField", TRUE, FALSE),
    (*14*) Scalar("Category", "name", "CharField", FALSE, FALSE),
    (*15*) Relation("Category", "parent", "ForeignKey", TRUE, "Category", <<13>>),
    (*16*) Relation("Category", "category", "ManyToOneRel", TRUE, "Category", <<13>>),
    (*17*) Scalar("Reference", "id", "BigAutoField", TRUE, FALSE),
    (*18*) Scalar("Reference", "number", "IntegerField", FALSE, FALSE),
    (*19*) Relation("Reference", "joinonanotherfield", "ManyToOneRel", TRUE,
                    "JoinOnAnotherField", <<18>>),
    (*20*) Scalar("JoinOnAnotherField", "id", "BigAutoField", TRUE, FALSE),
    (*21*) Relation("JoinOnAnotherField", "reference", "ForeignKey", FALSE,
                    "Reference", <<18>>),
    (*22*) Scalar("VerboseName", "id", "BigAutoField", TRUE, FALSE),
    (*23*) Scalar("VerboseName", "name", "CharField", FALSE, FALSE),
    (*24*) Relation("VerboseName", "verboserelation", "ManyToOneRel", TRUE,
                    "VerboseRelation", <<22>>),
    (*25*) Scalar("VerboseRelation", "id", "BigAutoField", TRUE, FALSE),
    (*26*) Relation("VerboseRelation", "custom_name", "ForeignKey", FALSE,
                    "VerboseName", <<22>>),
    (*27*) Scalar("GeoPoint", "id", "BigAutoField", TRUE, FALSE),
    (*28*) Scalar("GeoPoint", "lat", "FloatField", FALSE, FALSE),
    (*29*) Decimal("GeoPoint", "long", FALSE, 9, 6),
    (*30*) Scalar("GeoPoint", "name", "CharField", FALSE, FALSE),
    (*31*) Scalar("AllModelFields", "auto_field", "AutoField", TRUE, FALSE),
    (*32*) Scalar("AllModelFields", "big_integer_field", "BigIntegerField", FALSE, FALSE),
    (*33*) Scalar("AllModelFields", "binary_field", "BinaryField", FALSE, FALSE),
    (*34*) Relation("AllModelFields", "ticket", "ManyToOneRel", TRUE, "Ticket", <<31>>),
    (*35*) Scalar("Ticket", "id", "BigAutoField", TRUE, FALSE),
    (*36*) Relation("Ticket", "subject", "ForeignKey", TRUE, "AllModelFields", <<31>>),
    (*37*) Scalar("Profile", "id", "BigAutoField", TRUE, FALSE),
    (*38*) Relation("Profile", "account", "OneToOneField", FALSE, "Account", <<39>>),
    (*39*) Scalar("Account", "id", "BigAutoField", TRUE, FALSE),
    (*40*) Relation("Account", "profile", "OneToOneRel", TRUE, "Profile", <<39>>),
    (*41*) Scalar("ManyToManyLeftImplicit", "id", "BigAutoField", TRUE, FALSE),
    (*42*) Scalar("ManyToManyLeftImplicit", "name", "CharField", FALSE, FALSE),
    (*43*) Relation("ManyToManyLeftImplicit", "rights", "ManyToManyRel", TRUE,
                    "ManyToManyRightImplicit", <<>>),
    (*44*) Scalar("ManyToManyRightImplicit", "id", "BigAutoField", TRUE, FALSE),
    (*45*) Scalar("ManyToManyRightImplicit", "name", "CharField", FALSE, FALSE),
    (*46*) Relation("ManyToManyRightImplicit", "lefts", "ManyToManyField", FALSE,
                    "ManyToManyLeftImplicit", <<>>),
    (*47*) Scalar("ManyToManyLeftExplicit", "id", "BigAutoField", TRUE, FALSE),
    (*48*) Scalar("ManyToManyLeftExplicit", "name", "CharField", FALSE, FALSE),
    (*49*) Relation("ManyToManyLeftExplicit", "manytomanylinkexplicit", "ManyToOneRel",
                    TRUE, "ManyToManyLinkExplicit", <<47>>),
    (*50*) Scalar("ManyToManyRightExplicit", "id", "BigAutoField", TRUE, FALSE),
    (*51*) Scalar("ManyToManyRightExplicit", "name", "CharField", FALSE, FALSE),
    (*52*) Relation("ManyToManyRightExplicit", "manytomanylinkexplicit", "ManyToOneRel",
                    TRUE, "ManyToManyLinkExplicit", <<50>>),
    (*53*) Scalar("ManyToManyLinkExplicit", "id", "BigAutoField", TRUE, FALSE),
    (*54*) Relation("ManyToManyLinkExplicit", "left", "ForeignKey", FALSE,
                    "ManyToManyLeftExplicit", <<47>>),
    (*55*) Relation("ManyToManyLinkExplicit", "right", "ForeignKey", FALSE,
                    "ManyToManyRightExplicit", <<50>>),
    (*56*) Scalar("CompositeReference", "id", "BigAutoField", TRUE, FALSE),
    (*57*) Scalar("CompositeReference", "first", "IntegerField", FALSE, FALSE),
    (*58*) Scalar("CompositeReference", "second", "CharField", FALSE, FALSE),
    (*59*) Relation("CompositeReference", "compositeforeignkey", "ForeignObjectRel",
                    TRUE, "CompositeForeignKey", <<57, 58>>),
    (*60*) Scalar("CompositeForeignKey", "id", "BigAutoField", TRUE, FALSE),
    (*61*) Scalar("CompositeForeignKey", "first", "IntegerField", FALSE, FALSE),
    (*62*) Scalar("CompositeForeignKey", "second", "CharField", FALSE, FALSE),
    (*63*) Relation("CompositeForeignKey", "reference", "ForeignObject", FALSE,
                    "CompositeReference", <<57, 58>>),
    (*64*) Scalar("InvalidField", "id", "BigAutoField", TRUE, FALSE),
    (*65*) Scalar("InvalidField", "valid_type", "CharField", FALSE, FALSE),
    (*66*) Scalar("InvalidField", "invalid_type", "BinaryField", FALSE, FALSE),
    (*67*) Decimal("AllModelFields", "decimal_field", FALSE, 5, 2),
    (*68*) Decimal("AllModelFields", "decimal_field_large_decimals", FALSE, 19, 10),
    (*69*) Decimal("AllModelFields", "decimal_field_large_digits", FALSE, 100, 2),
    (*70*) Scalar("AllModelFields", "duration_field", "DurationField", FALSE, FALSE),
    (*71*) Scalar("AllModelFields", "file_field", "FileField", FALSE, FALSE),
    (*72*) Scalar("AllModelFields", "image_field", "ImageField", FALSE, FALSE),
    (*73*) Scalar("AllModelFields", "time_field", "TimeField", FALSE, FALSE),
    (*74*) Scalar("AllModelFields", "float_field", "FloatField", FALSE, FALSE),
    (*75*) Scalar("Measure", "id", "BigAutoField", TRUE, FALSE),
    (*76*) Decimal("Measure", "whole_38", FALSE, 38, 0),
    (*77*) Decimal("Measure", "whole_39", FALSE, 39, 0),
    (*78*) Decimal("Measure", "places_7", FALSE, 45, 7),
    (*79*) Decimal("Measure", "places_7_wide", FALSE, 46, 7),
    (*80*) Decimal("Measure", "places_8", FALSE, 9, 8),
    (*81*) Decimal("Measure", "wide_310", FALSE, 310, 2),
    (*82*) Decimal("Measure", "wide_311", FALSE, 311, 2),
    (*83*) Decimal("Measure", "whole_400", FALSE, 400, 0)
>>

FieldIds == 1..Len(FieldCatalogue)

F(f) == FieldCatalogue[f]

(* Model._meta.verbose_name and Model._meta.label of every entity. *)
ModelMeta == [
    Author |-> [verbose_name |-> <<"a","u","t","h","o","r">>,
                label |-> "collections.Author"],
    Book |-> [verbose_name |-> <<"b","o","o","k">>, label |-> "collections.Book"],
    Chapter |-> [verbose_name |-> <<"c","h","a","p","t","e","r">>,
                 label |-> "collections.Chapter"],
    Category |-> [verbose_name |-> <<"c","a","t","e","g","o","r","y">>,
                  label |-> "collections.Category"],
    Reference |-> [verbose_name |-> <<"r","e","f","e","r","e","n","c","e">>,
                   label |-> "collections.Reference"],
    JoinOnAnotherField |-> [verbose_name |-> <<"j","o","i","n"," ","o","n"," ",
                                "a","n","o","t","h","e","r"," ","f","i","e","l","d">>,
                            label |-> "collections.JoinOnAnotherField"],
    VerboseName |-> [verbose_name |-> <<"C","u","s","t","o","m"," ","N","a","m","e">>,
                     label |-> "collections.VerboseName"],
    VerboseRelation |-> [verbose_name |-> <<"v","e","r","b","o","s","e"," ",
                                "r","e","l","a","t","i","o","n">>,
                         label |-> "collections.VerboseRelation"],
    GeoPoint |-> [verbose_name |-> <<"g","e","o"," ","p","o","i","n","t">>,
                  label |-> "collections.GeoPoint"],
    AllModelFields |-> [verbose_name |-> <<"a","l","l"," ","m","o","d","e","l"," ",
                                "f","i","e","l","d","s">>,
                        label |-> "schema_validation.AllModelFields"],
    Ticket |-> [verbose_name |-> <<"t","i","c","k","e","t">>,
                label |-> "schema_validation.Ticket"],
    Profile |-> [verbose_name |-> <<"p","r","o","f","i","l","e">>,
                 label |-> "collections.Profile"],
    Account |-> [verbose_name |-> <<"a","c","c","o","u","n","t">>,
                 label |-> "collections.Account"],
    ManyToManyLeftImplicit |->
        [verbose_name |-> <<"m","a","n","y"," ","t","o"," ","m","a","n","y"," ",
                            "l","e","f","t"," ","i","m","p","l","i","c","i","t">>,
         label |-> "collections.ManyToManyLeftImplicit"],
    ManyToManyRightImplicit |->
        [verbose_name |-> <<"m","a","n","y"," ","t","o"," ","m","a","n","y"," ",
                            "r","i","g","h","t"," ","i","m","p","l","i","c","i","t">>,
         label |-> "collections.ManyToManyRightImplicit"],
    ManyToManyLeftExplicit |->
        [verbose_name |-> <<"m","a","n","y"," ","t","o"," ","m","a","n","y"," ",
                            "l","e","f","t"," ","e","x","p","l","i","c","i","t">>,
         label |-> "collections.ManyToManyLeftExplicit"],
    ManyToManyRightExplicit |->
        [verbose_name |-> <<"m","a","n","y"," ","t","o"," ","m","a","n","y"," ",
                            "r","i","g","h","t"," ","e","x","p","l","i","c","i","t">>,
         label |-> "collections.ManyToManyRightExplicit"],
    ManyToManyLinkExplicit |->
        [verbose_name |-> <<"m","a","n","y"," ","t","o"," ","m","a","n","y"," ",
                            "l","i","n","k"," ","e","x","p","l","i","c","i","t">>,
         label |-> "collections.ManyToManyLinkExplicit"],
    CompositeReference |->
        [verbose_name |-> <<"c","o","m","p","o","s","i","t","e"," ",
                            "r","e","f","e","r","e","n","c","e">>,
         label |-> "collections.CompositeReference"],
    CompositeForeignKey |->
        [verbose_name |-> <<"c","o","m","p","o","s","i","t","e"," ",
                            "f","o","r","e","i","g","n"," ","k","e","y">>,
         label |-> "collections.CompositeForeignKey"],
    InvalidField |->
        [verbose_name |-> <<"i","n","v","a","l","i","d"," ","f","i","e","l","d">>,
         label |-> "collections.InvalidField"],
    Measure |-> [verbose_name |-> <<"m","e","a","s","u","r","e">>,
                 label |-> "collections.Measure"]
]

Models == DOMAIN ModelMeta

(* The members of a set of descriptors in the order of declaration. *)
RECURSIVE Ascending(_)
Ascending(S) ==
    IF S = {} THEN <<>>
    ELSE LET first == CHOOSE x \in S : \A y \in S : x <= y
         IN  <<first>> \o Ascending(S \ {first})

(* Model._meta.get_fields(): reverse relations first, then the local fields. *)
get_fields(model) ==
    LET rev == {f \in FieldIds : F(f).model = model
                                  /\ F(f).cls \in {"ForeignObjectRel", "ManyToOneRel",
                                                   "OneToOneRel", "ManyToManyRel"}}
        fwd == {f \in FieldIds : F(f).model = model} \ rev
    IN  Ascending(rev) \o Ascending(fwd)

Range(q) == {q[i] : i \in DOMAIN q}

(***************************************************************************)
(* Django class tests.                                                     *)
(***************************************************************************)
ForeignObjectRelClasses ==
    {"ForeignObjectRel", "ManyToOneRel", "OneToOneRel", "ManyToManyRel"}

(* isinstance(field, models.Field) *)
IsField(f) == F(f).cls \notin ForeignObjectRelClasses \cup {"GenericForeignKey"}

(* isinstance(field, models.ForeignKey): OneToOneField subclasses ForeignKey *)
IsForeignKey(f) == F(f).cls \in {"ForeignKey", "OneToOneField"}

(* isinstance(field, models.ManyToOneRel): OneToOneRel subclasses ManyToOneRel *)
IsManyToOneRel(f) == F(f).cls \in {"ManyToOneRel", "OneToOneRel"}

(* isinstance(field, models.ForeignObjectRel) *)
IsForeignObjectRel(f) == F(f).cls \in ForeignObjectRelClasses

is_relation(f) ==
    F(f).cls \in {"ForeignKey", "OneToOneField", "ForeignObject", "ManyToManyField",
                  "GenericForeignKey"} \cup ForeignObjectRelClasses

many_to_one(f) == F(f).cls \in {"ForeignKey", "ForeignObject"}

one_to_many(f) == F(f).cls \in {"ManyToOneRel", "ForeignObjectRel"}

many_to_many(f) == F(f).cls \in {"ManyToManyField", "ManyToManyRel"}

(* str(field): Field.__str__ is "<app_label>.<Model>.<name>" *)
FieldStr(f) == ModelMeta[F(f).model].label \o "." \o F(f).name

(* Field.__hash__: the iteration order of a Python set follows the hashes, *)
(* not the insertion order.                                                *)
FieldHash(f) == (f * 37) % 101

(* Variant: a set is iterated in the order its members were created. *)
SetIter_creation_order(S) == Ascending(S)

(* Iterating a Python set of descriptors. *)
RECURSIVE SetIter(_)
SetIter(S) ==
    IF S = {} THEN <<>>
    ELSE LET first == CHOOSE x \in S : \A y \in S : FieldHash(x) <= FieldHash(y)
         IN  <<first>> \o SetIter(S \ {first})

(* Building a Python set from a set display: equal descriptors collapse. *)
PySet(display) == Range(display)

(***************************************************************************)
(* common/utils.py                                                         *)
(***************************************************************************)
UpperToLower == [c \in {"C", "N"} |-> IF c = "C" THEN "c" ELSE "n"]

IsUpper(c) == c \in DOMAIN UpperToLower

(* str.lower() followed by the two str.replace calls *)
LowerAndReplace(chars) ==
    [i \in DOMAIN chars |->
        LET l == IF IsUpper(chars[i]) THEN UpperToLower[chars[i]] ELSE chars[i]
        IN  IF l \in {"-", "."} THEN " " ELSE l]

(* re.sub('([A-Z]+)', r' \1', s): a space in front of every run of capitals *)
RECURSIVE SubCapitalRuns(_, _)
SubCapitalRuns(chars, i) ==
    IF i > Len(chars) THEN <<>>
    ELSE (IF IsUpper(chars[i]) /\ (i = 1 \/ ~IsUpper(chars[i - 1]))
          THEN <<" ", chars[i]>> ELSE <<chars[i]>>) \o SubCapitalRuns(chars, i + 1)

(* re.sub('([A-Z][a-z]+)', r' \1', s): a space in front of a capitalised word *)
RECURSIVE SubCapitalWords(_, _)
SubCapitalWords(chars, i) ==
    IF i > Len(chars) THEN <<>>
    ELSE (IF IsUpper(chars[i]) /\ i < Len(chars)
             /\ ~IsUpper(chars[i + 1]) /\ chars[i + 1] \notin {" ", "_"}
          THEN <<" ", chars[i]>> ELSE <<chars[i]>>) \o SubCapitalWords(chars, i + 1)

(* str.split(): the maximal runs of non-blank characters, as strings *)
RECURSIVE Split(_, _, _)
Split(chars, i, word) ==
    IF i > Len(chars) THEN (IF word = "" THEN <<>> ELSE <<word>>)
    ELSE IF chars[i] = " "
         THEN (IF word = "" THEN <<>> ELSE <<word>>) \o Split(chars, i + 1, "")
         ELSE Split(chars, i + 1, word \o chars[i])

RECURSIVE Join(_, _)
Join(sep, words) ==
    IF words = <<>> THEN ""
    ELSE IF Len(words) = 1 THEN words[1]
    ELSE words[1] \o sep \o Join(sep, Tail(words))

snake_case(string) ==
    Join("_", Split(SubCapitalWords(SubCapitalRuns(LowerAndReplace(string), 1), 1), 1, ""))

(* A set-or-True argument: all = TRUE stands for the literal True. *)
SetOrAll(all, members) == [all |-> all, members |-> members]

Ok(val) == [err |-> "none", val |-> val]

Raised(kind) == [err |-> kind, val |-> {}]

(* Variant: the subset test is left out. *)
ensure_is_subset_or_all_unchecked(input_set, final_set) ==
    IF input_set.all THEN Ok(final_set) ELSE Ok(input_set.members)

ensure_is_subset_or_all(input_set, final_set) ==
    IF input_set.all THEN Ok(final_set)
    ELSE IF ~(input_set.members \subseteq final_set) THEN Raised("RequestMalformed")
    ELSE Ok(input_set.members)

(***************************************************************************)
(* TypesenseCollection class attributes.                                   *)
(***************************************************************************)
mapped_geopoint_types == {"FloatField", "DecimalField"}

mapped_sortable_types ==
    {"FloatField", "DecimalField", "IntegerField", "DateField", "DateTimeField"}

(* The dict display names FloatField twice: the later entry wins. *)
mapped_field_types == [
    AutoField |-> "int32", CharField |-> "string", URLField |-> "string",
    TextField |-> "string", IntegerField |-> "int32", BigIntegerField |-> "int64",
    PositiveBigIntegerField |-> "int64", PositiveSmallIntegerField |-> "int32",
    PositiveIntegerField |-> "int32", SlugField |-> "string",
    BooleanField |-> "bool", DateField |-> "int64", DateTimeField |-> "int64",
    DecimalField |-> "float64", FloatField |-> "float32",
    GenericIPAddressField |-> "string", JSONField |-> "string",
    SmallAutoField |-> "int32", BigAutoField |-> "int64", UUIDField |-> "string",
    EmailField |-> "string", FilePathField |-> "string",
    SmallIntegerField |-> "int32"
]

(* An absent key of an APIField dict. *)
NoKey == "<absent>"

(***************************************************************************)
(* TypesenseCollectionUtils                                                *)
(***************************************************************************)
(* Variant: no relation counts as a self reference. *)
is_self_reference_never(model, field) == FALSE

is_self_reference(model, field) == F(field).related_model = model

is_composite_foreign_key(field) == Len(F(field).related_fields) > 1

(* The largest power of ten a Python float holds: float(10 ** 309) raises. *)
MaxFloatExponent == 308

(* The decimal exponent of max_float_value = 3.4e38. *)
MaxFloat32Exponent == 38

(* max_field_value = 10 ** (p - s) - 10 ** -s.  10 ** -s is a float when   *)
(* s > 0, and the subtraction then converts the int 10 ** (p - s) to a     *)
(* float, which raises OverflowError beyond 10 ** 308; with s = 0 both are *)
(* ints and the comparison with the float is exact.  max_field_value lies  *)
(* in [10^(p-s) - 1, 10^(p-s)), so it is below 3.4e38 exactly when p - s   *)
(* is at most 38.                                                          *)
handle_decimal_field(field) ==
    LET p == F(field).max_digits
        s == F(field).decimal_places
    IN  IF s > 0 /\ p - s > MaxFloatExponent THEN Raised("OverflowError")
        ELSE IF p - s <= MaxFloat32Exponent /\ s <= 7 THEN Ok("float32")
        ELSE Ok("float64")

(* Variant: the field named id goes through the type table as well. *)
handle_typesense_field_type_no_id_rule(valid_types, field) ==
    IF F(field).cls \notin DOMAIN valid_types THEN Raised("RequestMalformed")
    ELSE IF F(field).cls = "DecimalField" THEN handle_decimal_field(field)
    ELSE Ok(valid_types[F(field).cls])

handle_typesense_field_type(valid_types, field) ==
    IF F(field).name = "id" THEN Ok("string")
    ELSE IF F(field).cls \notin DOMAIN valid_types THEN Raised("RequestMalformed")
    ELSE IF F(field).cls = "DecimalField" THEN handle_decimal_field(field)
    ELSE Ok(valid_types[F(field).cls])

(* Variant: override_id is ignored. *)
should_skip_field_always(field, override_id) == F(field).name = "id"

should_skip_field(field, override_id) == F(field).name = "id" /\ ~override_id

get_relation_fields_in_set(fields) == {field \in fields : is_relation(field)}

is_non_relation_field(field) == IsField(field) /\ ~is_relation(field)

get_non_relation_fields_in_set(fields) ==
    {field \in fields : is_non_relation_field(field)}

(* Variant: every field counts as indexed. *)
is_field_indexed_always(field, skip_index_fields, index_fields) == TRUE

is_field_indexed(field, skip_index_fields, index_fields) ==
    field \notin skip_index_fields \/ field \in index_fields

(* Variant: the relations of every model are accepted. *)
get_mismatched_relations_any_model(model, parents, children) ==
    LET model_references ==
            {field \in FieldIds : IsForeignKey(field) /\ many_to_one(field)}
        model_referenced_by ==
            {field \in FieldIds : IsManyToOneRel(field) /\ one_to_many(field)}
    IN  <<parents \ model_references, children \ model_referenced_by>>

get_mismatched_relations(model, parents, children) ==
    LET model_references ==
            {field \in Range(get_fields(model)) : IsForeignKey(field) /\ many_to_one(field)}
        model_referenced_by ==
            {field \in Range(get_fields(model)) : IsManyToOneRel(field) /\ one_to_many(field)}
    IN  <<parents \ model_references, children \ model_referenced_by>>

(* Variant: no name is ever reported as seen. *)
has_multiple_of_same_field_name_never(field_set) == FALSE

(* The loop returns True at the second field of a name already seen. *)
has_multiple_of_same_field_name(field_set) ==
    \E a, b \in field_set : a # b /\ F(a).name = F(b).name

get_model_verbose_name_from_meta(model) == ModelMeta[model].verbose_name

(* Variant: the index flag does not look at skip_index_fields. *)
join_on_field_always_indexed(model, skip_index_fields, facets, field, valid_types) ==
    IF is_composite_foreign_key(field) THEN Raised("RequestMalformed")
    ELSE IF is_self_reference(model, field) THEN Raised("RequestMalformed")
    ELSE LET related_field == F(field).related_fields[1]
             related_model_name == get_model_verbose_name_from_meta(F(field).related_model)
             type == handle_typesense_field_type(valid_types, related_field)
         IN  IF type.err # "none" THEN Raised(type.err)
             ELSE Ok([name |-> F(field).name \o "_" \o F(related_field).name,
                      type |-> type.val,
                      reference |-> snake_case(related_model_name) \o "."
                                        \o F(related_field).name,
                      index |-> TRUE,
                      facet |-> field \in facets])

join_on_field(model, skip_index_fields, facets, field, valid_types) ==
    IF is_composite_foreign_key(field) THEN Raised("RequestMalformed")
    ELSE IF is_self_reference(model, field) THEN Raised("RequestMalformed")
    ELSE LET related_field == F(field).related_fields[1]
             related_model_name == get_model_verbose_name_from_meta(F(field).related_model)
             type == handle_typesense_field_type(valid_types, related_field)
         IN  IF type.err # "none" THEN Raised(type.err)
             ELSE Ok([name |-> F(field).name \o "_" \o F(related_field).name,
                      type |-> type.val,
                      reference |-> snake_case(related_model_name) \o "."
                                        \o F(related_field).name,
                      index |-> field \notin skip_index_fields,
                      facet |-> field \in facets])

(* Variant: a many-to-many relation is passed over like any other field. *)
process_relation_field_many_to_many_passed(field, model) ==
    IF (IsForeignKey(field) \/ IsForeignObjectRel(field)) /\ is_self_reference(model, field)
    THEN Raised("RequestMalformed")
    ELSE IF IsForeignKey(field) /\ many_to_one(field) THEN Ok([parent |-> {field}])
    ELSE IF IsManyToOneRel(field) /\ one_to_many(field) THEN Ok([child |-> {field}])
    ELSE Ok([none |-> {}])

process_relation_field(field, model) ==
    IF (IsForeignKey(field) \/ IsForeignObjectRel(field)) /\ is_self_reference(model, field)
    THEN Raised("RequestMalformed")
    ELSE IF many_to_many(field) THEN Raised("RequestMalformed")
    ELSE IF IsForeignKey(field) /\ many_to_one(field) THEN Ok([parent |-> {field}])
    ELSE IF IsManyToOneRel(field) /\ one_to_many(field) THEN Ok([child |-> {field}])
    ELSE Ok([none |-> {}])

process_field(field, index_fields, skip_index_fields, override_id, model) ==
    IF F(field).cls = "GenericForeignKey" THEN Raised("RequestMalformed")
    ELSE IF should_skip_field(field, override_id) THEN Ok([none |-> {}])
    ELSE IF is_non_relation_field(field)
            /\ is_field_indexed(field, skip_index_fields, index_fields)
    THEN Ok([non_relation_field |-> {field}])
    ELSE process_relation_field(field, model)

(***************************************************************************)
(* Geopoint entries.  An entry of the geopoints set is a tuple of          *)
(* descriptors or, ill-typed, a bare descriptor (is_tuple = FALSE).        *)
(***************************************************************************)
Pair(a, b) == [is_tuple |-> TRUE, elems |-> <<a, b>>]

Tuple(elems) == [is_tuple |-> TRUE, elems |-> elems]

Bare(a) == [is_tuple |-> FALSE, elems |-> <<a>>]

GeoHash(e) ==
    (IF e.is_tuple THEN 0 ELSE 1)
    + 2 * FieldHash(e.elems[1])
    + (IF Len(e.elems) >= 2 THEN 202 * FieldHash(e.elems[2]) ELSE 0)
    + (IF Len(e.elems) >= 3 THEN 20402 * FieldHash(e.elems[3]) ELSE 0)

RECURSIVE GeoIter(_)
GeoIter(S) ==
    IF S = {} THEN <<>>
    ELSE LET first == CHOOSE x \in S : \A y \in S : GeoHash(x) <= GeoHash(y)
         IN  <<first>> \o GeoIter(S \ {first})

(* "for lat, long in ...": the exception the unpacking of one entry raises *)
Unpack(e) ==
    IF ~e.is_tuple THEN "TypeError"
    ELSE IF Len(e.elems) # 2 THEN "ValueError"
    ELSE "none"

(* any(lat in field_set or long in field_set for lat, long in tup_set):    *)
(* the generator stops at the first entry that is in the set or that       *)
(* cannot be unpacked.                                                     *)
RECURSIVE AnyTupleElement(_, _, _)
AnyTupleElement(field_set, entries, i) ==
    IF i > Len(entries) THEN Ok(FALSE)
    ELSE IF Unpack(entries[i]) # "none" THEN Raised(Unpack(entries[i]))
    ELSE IF entries[i].elems[1] \in field_set \/ entries[i].elems[2] \in field_set
    THEN Ok(TRUE)
    ELSE AnyTupleElement(field_set, entries, i + 1)

is_tuple_element_in_set(field_set, tup_set) ==
    AnyTupleElement(field_set, GeoIter(tup_set), 1)

(***************************************************************************)
(* The call frame: the attributes of self and the control state.           *)
(***************************************************************************)
Raise(fr, kind) == [fr EXCEPT !.pc = "failed", !.error = kind]

Warn(fr, message) == [fr EXCEPT !.warned = Append(@, message)]

Then(fr, Op(_)) == IF fr.pc = "failed" THEN fr ELSE Op(fr)

Goto(fr, label) == IF fr.pc = "failed" THEN fr ELSE [fr EXCEPT !.pc = label]

(* The exception of the first element of a loop that raises. *)
FirstError(results) ==
    results[CHOOSE i \in DOMAIN results :
                /\ results[i].err # "none"
                /\ \A j \in 1..(i - 1) : results[j].err = "none"].err

NoneField == 0

(***************************************************************************)
(* Set objects.  A keyword argument that is a set is an object of the      *)
(* caller; an attribute of self is bound to one of these objects or to an  *)
(* object the constructor made (Own).  Assignment rebinds an attribute; a  *)
(* method that updates in place changes the object, and with it every      *)
(* name bound to it.                                                       *)
(***************************************************************************)
SetArguments ==
    {"index_fields", "skip_index_fields", "parents", "children", "geopoints",
     "facets", "detailed_parents", "detailed_children"}

SetAttributes == SetArguments \cup {"facetable_fields", "typesense_fields"}

Own(attribute) == "own " \o attribute

OwnObjects == [attribute \in SetAttributes |-> Own(attribute)]

(* A call without set arguments. *)
NoKwargs == [
    index_fields |-> {}, skip_index_fields |-> {}, parents |-> {}, children |-> {},
    geopoints |-> {}, facets |-> [all |-> FALSE, members |-> {}],
    detailed_parents |-> [all |-> FALSE, members |-> {}],
    detailed_children |-> [all |-> FALSE, members |-> {}]
]

(* The members of the set objects passed in kw; True is not a set. *)
CallerSets(kw) == [
    index_fields |-> kw.index_fields, skip_index_fields |-> kw.skip_index_fields,
    parents |-> kw.parents, children |-> kw.children, geopoints |-> kw.geopoints,
    facets |-> kw.facets.members, detailed_parents |-> kw.detailed_parents.members,
    detailed_children |-> kw.detailed_children.members
]

(* self.<attribute> = <a set object>: the attribute is bound to the object. *)
Bind(fr, attribute, object, members) ==
    [fr EXCEPT !.self[attribute] = members, !.refs[attribute] = object]

(* self.<attribute>.update(...), .extend(...): the object changes in place. *)
InPlace(fr, attribute, members) ==
    LET object == fr.refs[attribute]
    IN  [fr EXCEPT
            !.self = [a \in DOMAIN fr.self |->
                        IF a \in SetAttributes /\ fr.refs[a] = object
                        THEN members ELSE fr.self[a]],
            !.caller = [o \in DOMAIN fr.caller |->
                        IF o = object THEN members ELSE fr.caller[o]]]

EmptySelf == [
    model |-> "", name |-> "", index_fields |-> {}, skip_index_fields |-> {},
    children |-> {}, parents |-> {}, geopoints |-> {}, use_joins |-> FALSE,
    override_id |-> FALSE, non_relation_model_fields |-> {},
    non_relation_skipped_fields |-> {}, default_sorting_field |-> NoneField,
    facetable_fields |-> {}, facets |-> {}, detailed_children |-> {},
    detailed_parents |-> {}, typesense_fields |-> <<>>, typesense_relations |-> <<>>
]

(***************************************************************************)
(* TypesenseCollection methods, in the order __init__ calls them.          *)
(***************************************************************************)
_validate_client_and_model(kw, fr) ==
    IF ~kw.client_is_client THEN Raise(fr, "ConfigError")
    ELSE IF kw.model \notin Models THEN Raise(fr, "ConfigError")
    ELSE fr

(* __init__, the assignments before _handle_fields *)
InitAttributes(kw, fr) ==
    LET bound ==
            Bind(Bind(Bind(Bind(Bind(fr,
                "index_fields", "index_fields", kw.index_fields),
                "skip_index_fields", "skip_index_fields", kw.skip_index_fields),
                "children", "children", kw.children),
                "parents", "parents", kw.parents),
                "geopoints", "geopoints", kw.geopoints)
    IN  [bound EXCEPT !.self = [@ EXCEPT
            !.model = kw.model,
            !.name = snake_case(get_model_verbose_name_from_meta(kw.model)),
            !.non_relation_model_fields =
                get_non_relation_fields_in_set(Range(get_fields(kw.model))),
            !.use_joins = kw.use_joins,
            !.override_id = kw.override_id,
            !.non_relation_skipped_fields =
                get_non_relation_fields_in_set(kw.skip_index_fields)]]

(* Variant: the intersection is not looked at. *)
_handle_skipped_indexed_intersection_skipped(fr) == fr

_handle_skipped_indexed_intersection(fr) ==
    IF fr.self.index_fields \cap fr.self.non_relation_skipped_fields # {}
    THEN Raise(fr, "RequestMalformed") ELSE fr

_handle_geopoints_in_index_fields(fr) ==
    LET found == is_tuple_element_in_set(fr.self.index_fields, fr.self.geopoints)
    IN  IF found.err # "none" THEN Raise(fr, found.err)
        ELSE IF found.val THEN Raise(fr, "RequestMalformed")
        ELSE fr

(* Variant: a relation in index_fields is reported as a configuration error. *)
_handle_relations_in_index_fields_config_error(fr) ==
    IF get_relation_fields_in_set(fr.self.index_fields) # {}
    THEN Raise(fr, "ConfigError") ELSE fr

_handle_relations_in_index_fields(fr) ==
    IF get_relation_fields_in_set(fr.self.index_fields) # {}
    THEN Raise(fr, "RequestMalformed") ELSE fr

_handle_mismatched_fields(fr) ==
    IF fr.self.index_fields \ fr.self.non_relation_model_fields # {}
    THEN Warn(fr, "not present in the model") ELSE fr

(* Variant: a skipped field that is not of the model is an error. *)
_handle_mismatched_skips_raises(fr) ==
    IF fr.self.skip_index_fields \ fr.self.non_relation_model_fields # {}
    THEN Raise(fr, "RequestMalformed") ELSE fr

_handle_mismatched_skips(fr) ==
    IF fr.self.skip_index_fields \ fr.self.non_relation_model_fields # {}
    THEN Warn(fr, "not present in the model") ELSE fr

_handle_multiple_of_same_field_name(fr) ==
    IF has_multiple_of_same_field_name(fr.self.index_fields)
    THEN Raise(fr, "RequestMalformed") ELSE fr

_handle_explicit_relations(fr) ==
    LET mismatched == get_mismatched_relations(fr.self.model, fr.self.parents,
                                               fr.self.children)
    IN  IF mismatched[1] # {} THEN Raise(fr, "RequestMalformed")
        ELSE IF mismatched[2] # {} THEN Raise(fr, "RequestMalformed")
        ELSE fr

RECURSIVE GeopointTypes(_, _, _)
GeopointTypes(fr, entries, i) ==
    IF i > Len(entries) THEN fr
    ELSE IF Unpack(entries[i]) # "none" THEN Raise(fr, Unpack(entries[i]))
    ELSE IF F(entries[i].elems[1]).cls \notin mapped_geopoint_types
    THEN Raise(fr, "RequestMalformed")
    ELSE IF F(entries[i].elems[2]).cls \notin mapped_geopoint_types
    THEN Raise(fr, "RequestMalformed")
    ELSE GeopointTypes(fr, entries, i + 1)

_handle_geopoints(fr) == GeopointTypes(fr, GeoIter(fr.self.geopoints), 1)

_handle_explicit_fields(fr) ==
    Then(Then(Then(Then(Then(Then(Then(
        _handle_skipped_indexed_intersection(fr),
        _handle_geopoints_in_index_fields),
        _handle_relations_in_index_fields),
        _handle_mismatched_fields),
        _handle_mismatched_skips),
        _handle_multiple_of_same_field_name),
        _handle_explicit_relations),
        _handle_geopoints)

(* The FieldSet returned by _handle_implicit_fields, or the exception of   *)
(* the first field whose processing raises.                                *)
_handle_implicit_fields(fr) ==
    LET fields == get_fields(fr.self.model)
        processed(field) == process_field(field, fr.self.index_fields,
                                          fr.self.skip_index_fields,
                                          fr.self.override_id, fr.self.model)
        With(key) == {field \in Range(fields) : key \in DOMAIN processed(field).val}
    IN  IF \E i \in DOMAIN fields : processed(fields[i]).err # "none"
        THEN Raised("RequestMalformed")
        ELSE Ok([non_relation_fields |-> With("non_relation_field"),
                 parents |-> With("parent"),
                 children |-> With("child")])

(* Variant: a non-empty skip_index_fields selects the explicit branch too. *)
_handle_fields_skip_is_explicit(fr) ==
    IF fr.self.index_fields # {} \/ fr.self.parents # {}
       \/ fr.self.children # {} \/ fr.self.geopoints # {}
       \/ fr.self.skip_index_fields # {}
    THEN _handle_explicit_fields([fr EXCEPT !.mode = "explicit"])
    ELSE LET fields == _handle_implicit_fields(fr)
         IN  IF fields.err # "none"
             THEN Raise([fr EXCEPT !.mode = "implicit"], fields.err)
             ELSE Bind(Bind(Bind([fr EXCEPT !.mode = "implicit"],
                      "index_fields", Own("index_fields"),
                      fields.val.non_relation_fields),
                      "parents", Own("parents"), fields.val.parents),
                      "children", Own("children"), fields.val.children)

_handle_fields(fr) ==
    IF fr.self.index_fields # {} \/ fr.self.parents # {}
       \/ fr.self.children # {} \/ fr.self.geopoints # {}
    THEN _handle_explicit_fields([fr EXCEPT !.mode = "explicit"])
    ELSE LET warned_fr == IF fr.self.skip_index_fields # {}
                          THEN _handle_mismatched_skips(fr) ELSE fr
             fields == _handle_implicit_fields(warned_fr)
         IN  IF fields.err # "none"
             THEN Raise([warned_fr EXCEPT !.mode = "implicit"], fields.err)
             ELSE Bind(Bind(Bind([warned_fr EXCEPT !.mode = "implicit"],
                      "index_fields", Own("index_fields"),
                      fields.val.non_relation_fields),
                      "parents", Own("parents"), fields.val.parents),
                      "children", Own("children"), fields.val.children)

_handle_default_sorting_field(fr, field) ==
    IF field = NoneField THEN [fr EXCEPT !.self.default_sorting_field = NoneField]
    ELSE IF F(field).name = "id" THEN Raise(fr, "RequestMalformed")
    ELSE IF field \notin fr.self.non_relation_model_fields
            /\ field \notin fr.self.index_fields
    THEN Raise(fr, "RequestMalformed")
    ELSE IF F(field).cls \notin mapped_sortable_types THEN Raise(fr, "RequestMalformed")
    ELSE [fr EXCEPT !.self.default_sorting_field = field]

(* self.facetable_fields = ...; self.facets = ensure_is_subset_or_all(...) *)
(* Variant: the union is made in place, self.index_fields.update(parents). *)
AssignFacets_union_in_place(kw, fr) ==
    LET facetable_fields == fr.self.index_fields \cup fr.self.parents
        updated == Bind(InPlace(fr, "index_fields", facetable_fields),
                        "facetable_fields", fr.refs.index_fields, facetable_fields)
        facets == ensure_is_subset_or_all(kw.facets, facetable_fields)
    IN  IF facets.err # "none" THEN Raise(updated, facets.err)
        ELSE Bind(updated, "facets",
                  IF kw.facets.all THEN updated.refs.facetable_fields ELSE "facets",
                  facets.val)

(* union() makes a new set; ensure_is_subset_or_all returns one of its two *)
(* arguments, the object itself.                                           *)
AssignFacets(kw, fr) ==
    LET facetable_fields == fr.self.index_fields \cup fr.self.parents
        united == Bind(fr, "facetable_fields", Own("facetable_fields"), facetable_fields)
        facets == ensure_is_subset_or_all(kw.facets, facetable_fields)
    IN  IF facets.err # "none" THEN Raise(united, facets.err)
        ELSE Bind(united, "facets",
                  IF kw.facets.all THEN united.refs.facetable_fields ELSE "facets",
                  facets.val)

AssignDetailedChildren(kw, fr) ==
    LET detailed == ensure_is_subset_or_all(kw.detailed_children, fr.self.children)
    IN  IF detailed.err # "none" THEN Raise(fr, detailed.err)
        ELSE Bind(fr, "detailed_children",
                  IF kw.detailed_children.all THEN fr.refs.children
                  ELSE "detailed_children",
                  detailed.val)

AssignDetailedParents(kw, fr) ==
    LET detailed == ensure_is_subset_or_all(kw.detailed_parents, fr.self.parents)
    IN  IF detailed.err # "none" THEN Raise(fr, detailed.err)
        ELSE Bind(fr, "detailed_parents",
                  IF kw.detailed_parents.all THEN fr.refs.parents
                  ELSE "detailed_parents",
                  detailed.val)

_handle_facets(fr) ==
    IF fr.self.facets \cap fr.self.parents # {} /\ ~fr.self.use_joins
    THEN Warn(fr, "Facetting on relation only affects JOINs") ELSE fr

(* Variant: a field without a Typesense type is left out of the schema. *)
_handle_typesense_fields_unmapped_dropped(fr) ==
    LET non_relations_skip_index_fields ==
            get_non_relation_fields_in_set(fr.self.skip_index_fields)
        type(field) == handle_typesense_field_type(mapped_field_types, field)
        fields == SetIter({field \in fr.self.index_fields
                                       \cup non_relations_skip_index_fields :
                              type(field).err = "none"})
    IN  [fr EXCEPT !.self.typesense_fields =
            [i \in DOMAIN fields |->
                [type |-> type(fields[i]).val,
                 name |-> F(fields[i]).name,
                 facet |-> fields[i] \in fr.self.facets,
                 index |-> is_field_indexed(fields[i], fr.self.skip_index_fields,
                                            fr.self.index_fields),
                 reference |-> NoKey]]]

_handle_typesense_fields(fr) ==
    LET non_relations_skip_index_fields ==
            get_non_relation_fields_in_set(fr.self.skip_index_fields)
        fields == SetIter(fr.self.index_fields \cup non_relations_skip_index_fields)
        type(field) == handle_typesense_field_type(mapped_field_types, field)
    IN  IF \E i \in DOMAIN fields : type(fields[i]).err # "none"
        THEN Raise(fr, FirstError([i \in DOMAIN fields |-> type(fields[i])]))
        ELSE [fr EXCEPT !.self.typesense_fields =
                [i \in DOMAIN fields |->
                    [type |-> type(fields[i]).val,
                     name |-> F(fields[i]).name,
                     facet |-> fields[i] \in fr.self.facets,
                     index |-> is_field_indexed(fields[i], fr.self.skip_index_fields,
                                                fr.self.index_fields),
                     reference |-> NoKey]]]

(* Variant: a nested-object field is a facet when its relation is in facets. *)
_handle_typesense_relations_facetted(fr) ==
    LET parents == IF fr.self.use_joins THEN SetIter(fr.self.parents) ELSE <<>>
        join(field) == join_on_field(fr.self.model, fr.self.skip_index_fields,
                                     fr.self.facets, field, mapped_field_types)
        references == SetIter(fr.self.detailed_parents)
        children == SetIter(fr.self.detailed_children)
    IN  IF \E i \in DOMAIN parents : join(parents[i]).err # "none"
        THEN Raise(fr, FirstError([i \in DOMAIN parents |-> join(parents[i])]))
        ELSE [fr EXCEPT !.self.typesense_relations =
                [i \in DOMAIN parents |-> join(parents[i]).val]
                \o [i \in DOMAIN references |->
                        [name |-> F(references[i]).name, type |-> "object",
                         index |-> references[i] \notin fr.self.skip_index_fields,
                         facet |-> references[i] \in fr.self.facets, reference |-> NoKey]]
                \o [i \in DOMAIN children |->
                        [name |-> F(children[i]).name, type |-> "object[]",
                         index |-> children[i] \notin fr.self.skip_index_fields,
                         facet |-> children[i] \in fr.self.facets, reference |-> NoKey]]]

_handle_typesense_relations(fr) ==
    LET parents == IF fr.self.use_joins THEN SetIter(fr.self.parents) ELSE <<>>
        join(field) == join_on_field(fr.self.model, fr.self.skip_index_fields,
                                     fr.self.facets, field, mapped_field_types)
        references == SetIter(fr.self.detailed_parents)
        children == SetIter(fr.self.detailed_children)
    IN  IF \E i \in DOMAIN parents : join(parents[i]).err # "none"
        THEN Raise(fr, FirstError([i \in DOMAIN parents |-> join(parents[i])]))
        ELSE [fr EXCEPT !.self.typesense_relations =
                [i \in DOMAIN parents |-> join(parents[i]).val]
                \o [i \in DOMAIN references |->
                        [name |-> F(references[i]).name, type |-> "object",
                         index |-> references[i] \notin fr.self.skip_index_fields,
                         facet |-> FALSE, reference |-> NoKey]]
                \o [i \in DOMAIN children |->
                        [name |-> F(children[i]).name, type |-> "object[]",
                         index |-> children[i] \notin fr.self.skip_index_fields,
                         facet |-> FALSE, reference |-> NoKey]]]

(* "for long, lat in self.geopoints": long is the first member of the      *)
(* tuple and the name formats the descriptors themselves.                  *)
_handle_typesense_geopoints(fr) ==
    LET entries == GeoIter(fr.self.geopoints)
    IN  IF \E i \in DOMAIN entries : Unpack(entries[i]) # "none"
        THEN Raise(fr, Unpack(entries[CHOOSE i \in DOMAIN entries :
                        /\ Unpack(entries[i]) # "none"
                        /\ \A j \in 1..(i - 1) : Unpack(entries[j]) = "none"]))
        ELSE InPlace(fr, "typesense_fields", fr.self.typesense_fields \o
                [i \in DOMAIN entries |->
                    LET long == entries[i].elems[1]
                        lat == entries[i].elems[2]
                    IN  [name |-> FieldStr(long) \o "_" \o FieldStr(lat),
                         type |-> "geopoint",
                         facet |-> lat \in fr.self.facets \/ long \in fr.self.facets,
                         index |-> is_field_indexed(lat, fr.self.skip_index_fields,
                                                    fr.self.index_fields)
                                   \/ is_field_indexed(long, fr.self.skip_index_fields,
                                                       fr.self.index_fields),
                         reference |-> NoKey]])

(***************************************************************************)
(* __init__ as a sequence of steps.                                        *)
(***************************************************************************)
Frame == [self |-> self, pc |-> pc, error |-> error, warned |-> warned, mode |-> mode,
          caller |-> caller, refs |-> refs]

StartFrame == [self |-> EmptySelf, pc |-> "_validate_client_and_model",
               error |-> "none", warned |-> <<>>, mode |-> "unset",
               caller |-> CallerSets(NoKwargs), refs |-> OwnObjects]

(* The frame in which __init__ starts on the given arguments. *)
Call(kw) == [StartFrame EXCEPT !.caller = CallerSets(kw)]

Step(label, fr, next) ==
    /\ pc = label
    /\ self' = fr.self
    /\ error' = fr.error
    /\ warned' = fr.warned
    /\ mode' = fr.mode
    /\ caller' = fr.caller
    /\ refs' = fr.refs
    /\ pc' = IF fr.pc = "failed" THEN "failed" ELSE next
    /\ UNCHANGED <<kwargs, index_display>>

ValidateClientAndModel ==
    Step("_validate_client_and_model", _validate_client_and_model(kwargs, Frame),
         "attributes")

Attributes == Step("attributes", InitAttributes(kwargs, Frame), "_handle_fields")

HandleFields ==
    Step("_handle_fields", _handle_fields(Frame), "_handle_default_sorting_field")

HandleDefaultSortingField ==
    Step("_handle_default_sorting_field",
         _handle_default_sorting_field(Frame, kwargs.default_sorting_field), "facets")

Facets == Step("facets", AssignFacets(kwargs, Frame), "detailed_children")

DetailedChildren ==
    Step("detailed_children", AssignDetailedChildren(kwargs, Frame), "detailed_parents")

DetailedParents ==
    Step("detailed_parents", AssignDetailedParents(kwargs, Frame), "_handle_facets")

HandleFacets == Step("_handle_facets", _handle_facets(Frame), "_handle_typesense_fields")

HandleTypesenseFields ==
    Step("_handle_typesense_fields", _handle_typesense_fields(Frame),
         "_handle_typesense_relations")

HandleTypesenseRelations ==
    Step("_handle_typesense_relations", _handle_typesense_relations(Frame),
         "_handle_typesense_geopoints")

HandleTypesenseGeopoints ==
    Step("_handle_typesense_geopoints", _handle_typesense_geopoints(Frame), "done")

Next ==
    \/ ValidateClientAndModel
    \/ Attributes
    \/ HandleFields
    \/ HandleDefaultSortingField
    \/ Facets
    \/ DetailedChildren
    \/ DetailedParents
    \/ HandleFacets
    \/ HandleTypesenseFields
    \/ HandleTypesenseRelations
    \/ HandleTypesenseGeopoints

(* The whole call as a function of its arguments. *)
Construct(kw) ==
    LET f1 == _validate_client_and_model(kw, Call(kw))
        f2 == IF f1.pc = "failed" THEN f1 ELSE InitAttributes(kw, f1)
        f3 == Then(f2, _handle_fields)
        f4 == IF f3.pc = "failed" THEN f3
              ELSE _handle_default_sorting_field(f3, kw.default_sorting_field)
        f5 == IF f4.pc = "failed" THEN f4 ELSE AssignFacets(kw, f4)
        f6 == IF f5.pc = "failed" THEN f5 ELSE AssignDetailedChildren(kw, f5)
        f7 == IF f6.pc = "failed" THEN f6 ELSE AssignDetailedParents(kw, f6)
        f8 == Then(Then(Then(Then(f7, _handle_facets), _handle_typesense_fields),
                   _handle_typesense_relations), _handle_typesense_geopoints)
    IN  Goto(f8, "done")

(***************************************************************************)
(* The calls explored.  A call is a model and a set of picks; a pick is a  *)
(* member of one set argument, a flag that is set, or a scalar argument.   *)
(***************************************************************************)
GeopointCandidates ==
    <<Pair(28, 29), Pair(6, 29), Pair(29, 28), Bare(28), Tuple(<<28, 29, 30>>),
      Tuple(<<28>>)>>

Flags == {"use_joins", "override_id", "facets_all", "detailed_parents_all",
          "detailed_children_all", "client_is_not_a_client"}

ExplicitPool ==
    ({"index_fields"} \X {5, 6, 7, 8, 11, 14})
    \cup ({"index_again"} \X {6})
    \cup ({"skip_index_fields"} \X {6, 8, 11})
    \cup ({"parents"} \X {6, 8, 9, 12, 15})
    \cup ({"children"} \X {4, 8, 9, 16})
    \cup ({"geopoints"} \X DOMAIN GeopointCandidates)
    \cup ({"facets"} \X {6, 8})
    \cup ({"detailed_parents"} \X {8, 12})
    \cup ({"detailed_children"} \X {9})
    \cup ({"default_sorting_field"} \X {6, 7})
    \cup (Flags \X {0})

ImplicitPool(model) ==
    ({"skip_index_fields"} \X Range(get_fields(model)))
    \cup ({"index_fields"} \X get_non_relation_fields_in_set(Range(get_fields(model))))
    \cup ({"parents"} \X {f \in Range(get_fields(model)) : IsField(f) /\ is_relation(f)})
    \cup ((Flags \ {"client_is_not_a_client"}) \X {0})

(* The calls on the wide entities select among their scalar fields only. *)
ScalarPool(model) ==
    ({"index_fields"} \X (get_non_relation_fields_in_set(Range(get_fields(model)))
                            \ {f \in FieldIds : F(f).name = "id"}))
    \cup ({"skip_index_fields"} \X ({32, 33, 76, 82} \cap Range(get_fields(model))))
    \cup ({"override_id", "use_joins"} \X {0})

SortingPool(model) ==
    {"default_sorting_field"} \X get_non_relation_fields_in_set(Range(get_fields(model)))

(* On the wide entities: the big integer field and the float field. *)
WideSortingPool(model) == SortingPool(model) \cap ({"default_sorting_field"} \X {32, 74})

Pool(model) ==
    IF model \in {"Book", "Category"} THEN ExplicitPool
    ELSE IF model \in {"AllModelFields", "Measure"}
    THEN ScalarPool(model) \cup WideSortingPool(model)
    ELSE IF model = "GeoPoint"
    THEN ImplicitPool(model) \cup ({"geopoints"} \X DOMAIN GeopointCandidates)
    ELSE IF model \in {"Reference", "Author"}
    THEN ImplicitPool(model) \cup SortingPool(model)
    ELSE IF model \in Models THEN ImplicitPool(model)
    ELSE {}

RECURSIVE SubsetsUpTo(_, _)
SubsetsUpTo(S, n) ==
    IF n = 0 THEN {{}}
    ELSE LET smaller == SubsetsUpTo(S, n - 1)
         IN  smaller \cup {X \cup {x} : X \in smaller, x \in S}

Picked(picks, param) == {p[2] : p \in {q \in picks : q[1] = param}}

Flag(picks, flag) == <<flag, 0>> \in picks

(* True is passed instead of a set, and one default sorting field at most. *)
WellFormedPicks(picks) ==
    /\ Flag(picks, "facets_all") => Picked(picks, "facets") = {}
    /\ Flag(picks, "detailed_parents_all") => Picked(picks, "detailed_parents") = {}
    /\ Flag(picks, "detailed_children_all") => Picked(picks, "detailed_children") = {}
    /\ Cardinality(Picked(picks, "default_sorting_field")) <= 1
    /\ Picked(picks, "index_again") \subseteq Picked(picks, "index_fields")

Display(picks) ==
    Ascending(Picked(picks, "index_fields")) \o Ascending(Picked(picks, "index_again"))

Kwargs(model, picks) == [
    client_is_client |-> ~Flag(picks, "client_is_not_a_client"),
    model |-> model,
    index_fields |-> PySet(Display(picks)),
    skip_index_fields |-> Picked(picks, "skip_index_fields"),
    parents |-> Picked(picks, "parents"),
    children |-> Picked(picks, "children"),
    geopoints |-> {GeopointCandidates[i] : i \in Picked(picks, "geopoints")},
    facets |-> SetOrAll(Flag(picks, "facets_all"), Picked(picks, "facets")),
    detailed_parents |-> SetOrAll(Flag(picks, "detailed_parents_all"),
                                  Picked(picks, "detailed_parents")),
    detailed_children |-> SetOrAll(Flag(picks, "detailed_children_all"),
                                   Picked(picks, "detailed_children")),
    default_sorting_field |->
        IF Picked(picks, "default_sorting_field") = {} THEN NoneField
        ELSE CHOOSE f \in Picked(picks, "default_sorting_field") : TRUE,
    use_joins |-> Flag(picks, "use_joins"),
    override_id |-> Flag(picks, "override_id")
]

Init ==
    /\ \E model \in Models \cup {"Wrong"} :
        \E picks \in SubsetsUpTo(Pool(model), MaxPicks) :
            /\ WellFormedPicks(picks)
            /\ kwargs = Kwargs(model, picks)
            /\ index_display = Display(picks)
    /\ self = StartFrame.self
    /\ pc = StartFrame.pc
    /\ error = StartFrame.error
    /\ warned = StartFrame.warned
    /\ mode = StartFrame.mode
    /\ caller = CallerSets(kwargs)
    /\ refs = StartFrame.refs

Spec == Init /\ [][Next]_vars

(***************************************************************************)
(* Vocabulary of the properties.                                           *)
(***************************************************************************)
Terminal == pc \in {"done", "failed"}

(* The call got its client and a model class. *)
Validated == kwargs.client_is_client /\ kwargs.model \in Models

(* Every geopoints entry is a 2-tuple, as CollectionParams types it. *)
WellTypedGeopoints ==
    \A e \in kwargs.geopoints : e.is_tuple /\ Len(e.elems) = 2

RejectedAsMalformed == pc = "failed" /\ error = "RequestMalformed"

(* A well-typed call with the given defect ends in RequestMalformed. *)
MustReject(defect) ==
    (Terminal /\ Validated /\ WellTypedGeopoints /\ defect) => RejectedAsMalformed

ExplicitArguments ==
    kwargs.index_fields # {} \/ kwargs.parents # {}
    \/ kwargs.children # {} \/ kwargs.geopoints # {}

EntityFields == {f \in FieldIds : F(f).model = kwargs.model}

EntityScalars ==
    {f \in EntityFields : F(f).related_model = "" /\ F(f).cls # "GenericForeignKey"}

(* The many-to-one relations the entity owns and its one-to-many reverse relations. *)
EntityManyToOne == {f \in EntityFields : F(f).cls = "ForeignKey"}

EntityOneToMany == {f \in EntityFields : F(f).cls = "ManyToOneRel"}

(* The descriptors behind the scalar entries of typesense_fields, in order. *)
EmittedScalars ==
    SetIter(self.index_fields
            \cup {f \in self.skip_index_fields : F(f).related_model = ""})

(* The parents behind the join entries of typesense_relations, in order. *)
EmittedJoins == IF self.use_joins THEN SetIter(self.parents) ELSE <<>>

EmittedFields == self.typesense_fields \o self.typesense_relations

(* The outcome of a call, apart from the stored override_id flag. *)
Outcome(fr) ==
    [pc |-> fr.pc, error |-> fr.error, warned |-> fr.warned,
     self |-> [fr.self EXCEPT !.override_id = FALSE]]

(***************************************************************************)
(* C1  Subset law.  A finished construction has facets within              *)
(* index_fields + parents, detailed_parents within parents and             *)
(* detailed_children within children; True resolves to the whole base set  *)
(* and a set is kept as given.  A call whose explicit facets,              *)
(* detailed_parents or detailed_children set is not within its base set    *)
(* ends in RequestMalformed.                                               *)
(***************************************************************************)
C1_SubsetLaw ==
    /\ pc = "done" =>
        /\ self.facets \subseteq self.index_fields \cup self.parents
        /\ self.detailed_parents \subseteq self.parents
        /\ self.detailed_children \subseteq self.children
        /\ self.facets = IF kwargs.facets.all
                          THEN self.index_fields \cup self.parents
                          ELSE kwargs.facets.members
        /\ self.detailed_parents = IF kwargs.detailed_parents.all THEN self.parents
                                    ELSE kwargs.detailed_parents.members
        /\ self.detailed_children = IF kwargs.detailed_children.all THEN self.children
                                     ELSE kwargs.detailed_children.members
    /\ MustReject(/\ ~kwargs.facets.all
                  /\ ~(kwargs.facets.members \subseteq self.index_fields \cup self.parents))
    /\ MustReject(/\ ~kwargs.detailed_parents.all
                  /\ ~(kwargs.detailed_parents.members \subseteq self.parents))
    /\ MustReject(/\ ~kwargs.detailed_children.all
                  /\ ~(kwargs.detailed_children.members \subseteq self.children))

(* The facets of a call with resolved fields are outside the base set and the call was rejected. *)
C1_Witness ==
    /\ RejectedAsMalformed
    /\ self.facetable_fields # {}
    /\ ~kwargs.facets.all
    /\ ~(kwargs.facets.members \subseteq self.facetable_fields)

(***************************************************************************)
(* C2  Mode boundary.  Implicit discovery runs exactly when index_fields,  *)
(* parents, children and geopoints are all empty.  In the explicit mode    *)
(* the four resolved sets are the supplied ones, and the outcome of the    *)
(* call does not depend on override_id.                                    *)
(***************************************************************************)
C2_ModeBoundary ==
    /\ mode # "unset" => (mode = "implicit" <=> ~ExplicitArguments)
    /\ mode = "explicit" =>
        /\ self.index_fields = kwargs.index_fields
        /\ self.parents = kwargs.parents
        /\ self.children = kwargs.children
        /\ self.geopoints = kwargs.geopoints
    /\ (Terminal /\ mode = "explicit") =>
        Outcome(Construct([kwargs EXCEPT !.override_id = ~@])) = Outcome(Frame)

(* An explicit call with override_id on an entity with relations finished without parents. *)
C2_Witness ==
    /\ pc = "done"
    /\ mode = "explicit"
    /\ kwargs.override_id
    /\ kwargs.skip_index_fields # {}
    /\ EntityManyToOne # {}
    /\ self.parents = {}
    /\ \A f \in self.index_fields : F(f).name # "id"

(***************************************************************************)
(* C3  Implicit discovery result.                                          *)
(***************************************************************************)
(* Every relation of the entity is many-to-one or one-to-many to another entity. *)
PlainRelations ==
    \A f \in EntityFields \ EntityScalars :
        /\ f \in EntityManyToOne \cup EntityOneToMany
        /\ F(f).related_model # kwargs.model

ImplicitCase ==
    /\ pc = "done"
    /\ mode = "implicit"
    /\ PlainRelations
    /\ kwargs.skip_index_fields \subseteq EntityScalars

IdFields == {f \in EntityFields : F(f).name = "id"}

DiscoveredSets ==
    /\ self.index_fields =
            (EntityScalars \ kwargs.skip_index_fields)
                \ (IF kwargs.override_id THEN {} ELSE IdFields)
    /\ self.parents = EntityManyToOne
    /\ self.children = EntityOneToMany
    /\ self.skip_index_fields = kwargs.skip_index_fields

SizesPlusOne ==
    Cardinality(self.index_fields) + Cardinality(self.skip_index_fields)
        + Cardinality(self.parents) + Cardinality(self.children) + 1
    = Cardinality(EntityFields)

C4_IndexSkipDisjoint ==
    /\ pc = "done" => self.index_fields \cap self.skip_index_fields = {}
    /\ MustReject(kwargs.index_fields \cap kwargs.skip_index_fields # {})

(* A call listing a scalar field in both sets was rejected. *)
C4_Witness ==
    /\ RejectedAsMalformed
    /\ mode = "explicit"
    /\ \E f \in kwargs.index_fields \cap kwargs.skip_index_fields : F(f).related_model = ""

(***************************************************************************)
(* C5  Duplicate names in index_fields.  Two distinct descriptors of the   *)
(* same name in index_fields end the call in RequestMalformed.  A call     *)
(* that supplies nothing but index_fields, all of them supported scalar    *)
(* fields of distinct names, finishes, also when a descriptor is written   *)
(* twice in the set display: each descriptor is once in index_fields and   *)
(* once in the emitted fields.                                             *)
(***************************************************************************)
SameNameTwice(fields) == \E a, b \in fields : a # b /\ F(a).name = F(b).name

(* The field has a Typesense type. *)
TypeMapped(f) == handle_typesense_field_type(mapped_field_types, f).err = "none"

OnlyIndexFieldsSupplied ==
    /\ kwargs.index_fields # {}
    /\ kwargs.skip_index_fields = {} /\ kwargs.parents = {}
    /\ kwargs.children = {} /\ kwargs.geopoints = {}
    /\ kwargs.facets = SetOrAll(FALSE, {})
    /\ kwargs.detailed_parents = SetOrAll(FALSE, {})
    /\ kwargs.detailed_children = SetOrAll(FALSE, {})
    /\ kwargs.default_sorting_field = NoneField
    /\ \A f \in kwargs.index_fields :
            F(f).related_model = "" /\ TypeMapped(f)

C5_DuplicateNames ==
    /\ MustReject(SameNameTwice(kwargs.index_fields))
    /\ (Terminal /\ Validated /\ OnlyIndexFieldsSupplied
            /\ ~SameNameTwice(Range(index_display)))
        => /\ pc = "done"
           /\ self.index_fields = Range(index_display)
           /\ Len(self.typesense_fields) = Cardinality(Range(index_display))
           /\ \A f \in Range(index_display) :
                  Cardinality({i \in DOMAIN self.typesense_fields :
                                  self.typesense_fields[i].name = F(f).name}) = 1

(* A call whose display names one descriptor twice finished with one emitted field. *)
C5_Witness ==
    /\ pc = "done"
    /\ Len(index_display) > Cardinality(Range(index_display))
    /\ Cardinality(self.index_fields) = 1
    /\ Len(self.typesense_fields) = 1

(***************************************************************************)
(* C6  The names of the emitted fields (typesense_fields together with     *)
(* typesense_relations) of a finished construction are pairwise distinct.  *)
(***************************************************************************)
C6_EmittedNamesDistinct ==
    pc = "done" =>
        \A i, j \in DOMAIN EmittedFields :
            i # j => EmittedFields[i].name # EmittedFields[j].name

(***************************************************************************)
(* C7  The type of the primary key.                                        *)
(***************************************************************************)
(* The type the table of mapped_field_types gives a supported field. *)
TableType(f) ==
    IF F(f).cls = "DecimalField" THEN {"float32", "float64"}
    ELSE {mapped_field_types[F(f).cls]}

JoinTarget(parent) == F(parent).related_fields[1]

(* C7 as claimed: the primary-key field of an entity, whatever its type    *)
(* and name, is emitted with type string, as a scalar field and as the     *)
(* target of a join field.                                                 *)
C7_PrimaryKeyIsStringAsClaimed ==
    pc = "done" =>
        /\ \A i \in DOMAIN EmittedScalars :
               F(EmittedScalars[i]).primary_key => self.typesense_fields[i].type = "string"
        /\ \A i \in DOMAIN EmittedJoins :
               F(JoinTarget(EmittedJoins[i])).primary_key
                   => self.typesense_relations[i].type = "string"

(* C7 amended: a field named id, whatever its type, is emitted with type   *)
(* string, ahead of the type table, as a scalar field and as the target of *)
(* a join field; a field of any other name, the primary key included, gets *)
(* the type of the table.                                                  *)
C7_IdIsString ==
    pc = "done" =>
        /\ \A i \in DOMAIN EmittedScalars :
               self.typesense_fields[i].type \in
                   (IF F(EmittedScalars[i]).name = "id" THEN {"string"}
                    ELSE TableType(EmittedScalars[i]))
        /\ \A i \in DOMAIN EmittedJoins :
               self.typesense_relations[i].type \in
                   (IF F(JoinTarget(EmittedJoins[i])).name = "id" THEN {"string"}
                    ELSE TableType(JoinTarget(EmittedJoins[i])))

(* An integer id field was emitted as a scalar field and as the target of a join field. *)
C7_Witness ==
    /\ pc = "done"
    /\ \E i \in DOMAIN EmittedScalars :
           /\ F(EmittedScalars[i]).name = "id"
           /\ F(EmittedScalars[i]).cls = "BigAutoField"
           /\ self.typesense_fields[i].type = "string"
    /\ \E i \in DOMAIN EmittedJoins :
           /\ F(JoinTarget(EmittedJoins[i])).name = "id"
           /\ self.typesense_relations[i].type = "string"

(***************************************************************************)
(* C8  Join fields.  A finished construction has join fields exactly when  *)
(* use_joins is set, one per member of parents and none for children: the  *)
(* name is <relation>_<target field>, the reference <collection of the     *)
(* target model>.<target field>, the type that of the target field, index  *)
(* tells that the relation is not in skip_index_fields and facet that it   *)
(* is in facets.  Without use_joins no emitted field has a reference.      *)
(***************************************************************************)
CollectionNames == [
    Author |-> "author", Book |-> "book", Chapter |-> "chapter",
    Category |-> "category", Reference |-> "reference",
    JoinOnAnotherField |-> "join_on_another_field", VerboseName |-> "custom_name",
    VerboseRelation |-> "verbose_relation", GeoPoint |-> "geo_point",
    AllModelFields |-> "all_model_fields", Ticket |-> "ticket",
    Profile |-> "profile", Account |-> "account",
    ManyToManyLeftImplicit |-> "many_to_many_left_implicit",
    ManyToManyRightImplicit |-> "many_to_many_right_implicit",
    ManyToManyLeftExplicit |-> "many_to_many_left_explicit",
    ManyToManyRightExplicit |-> "many_to_many_right_explicit",
    ManyToManyLinkExplicit |-> "many_to_many_link_explicit",
    CompositeReference |-> "composite_reference",
    CompositeForeignKey |-> "composite_foreign_key",
    InvalidField |-> "invalid_field", Measure |-> "measure"
]

WithReference(fields) == {i \in DOMAIN fields : fields[i].reference # NoKey}

JoinFieldOf(parent) ==
    LET target == JoinTarget(parent)
    IN  [name |-> F(parent).name \o "_" \o F(target).name,
         reference |-> CollectionNames[F(parent).related_model] \o "." \o F(target).name,
         index |-> parent \notin self.skip_index_fields,
         facet |-> parent \in self.facets]

C8_JoinFields ==
    pc = "done" =>
        /\ WithReference(self.typesense_fields) = {}
        /\ ~self.use_joins => WithReference(self.typesense_relations) = {}
        /\ self.use_joins =>
            /\ Cardinality(WithReference(self.typesense_relations))
                   = Cardinality(self.parents)
            /\ \A parent \in self.parents :
                   Cardinality({i \in WithReference(self.typesense_relations) :
                       LET join == self.typesense_relations[i]
                       IN  /\ [name |-> join.name, reference |-> join.reference,
                                index |-> join.index, facet |-> join.facet]
                               = JoinFieldOf(parent)
                           /\ join.type \in (IF F(JoinTarget(parent)).name = "id"
                                              THEN {"string"}
                                              ELSE TableType(JoinTarget(parent)))}) = 1

(* A join field was emitted for a skipped and faceted parent of an entity with children. *)
C8_Witness ==
    /\ pc = "done"
    /\ self.use_joins
    /\ self.children # {}
    /\ \E i \in DOMAIN self.typesense_relations :
           self.typesense_relations[i].reference # NoKey
           /\ self.typesense_relations[i].facet
           /\ ~self.typesense_relations[i].index

(***************************************************************************)
(* C9  Self reference.                                                     *)
(***************************************************************************)
SelfReferences == {f \in EntityManyToOne : F(f).related_model = kwargs.model}

(* C9 as claimed: a call for an entity with a many-to-one relation to      *)
(* itself ends in RequestMalformed, whatever the mode, parents and         *)
(* use_joins are.                                                          *)
C9_SelfReferenceAlwaysRejectedAsClaimed == MustReject(SelfReferences # {})

(* C9 amended: such a call ends in RequestMalformed in the implicit mode,  *)
(* and in the explicit mode when the relation is listed in parents and     *)
(* use_joins is set.                                                       *)
C9_SelfReferenceRejected ==
    MustReject(/\ SelfReferences # {}
               /\ \/ ~ExplicitArguments
                  \/ kwargs.use_joins /\ SelfReferences \cap kwargs.parents # {})

(* An explicit call with use_joins listing the self reference in parents was rejected at the join. *)
C9_Witness ==
    /\ RejectedAsMalformed
    /\ mode = "explicit"
    /\ kwargs.use_joins
    /\ SelfReferences \cap self.parents # {}
    /\ self.facetable_fields # {}
    /\ self.typesense_relations = <<>>

(***************************************************************************)
(* C10  In a finished construction every member of parents is a            *)
(* many-to-one relation the entity owns and every member of children one   *)
(* of its one-to-many reverse relations; a call whose parents or children  *)
(* holds anything else ends in RequestMalformed.                           *)
(***************************************************************************)
C10_GenuineRelations ==
    /\ pc = "done" =>
        /\ self.parents \subseteq EntityManyToOne
        /\ self.children \subseteq EntityOneToMany
    /\ MustReject(~(kwargs.parents \subseteq EntityManyToOne))
    /\ MustReject(~(kwargs.children \subseteq EntityOneToMany))

(* A call listing the many-to-one relation of another entity in parents was rejected. *)
C10_Witness ==
    /\ RejectedAsMalformed
    /\ mode = "explicit"
    /\ \E f \in kwargs.parents : F(f).cls = "ForeignKey" /\ F(f).model # kwargs.model

(***************************************************************************)
(* C11  Implicit discovery on an entity with a many-to-many relation,      *)
(* declared on it or pointing at it, ends in RequestMalformed, and no      *)
(* finished construction holds a many-to-many relation among its parents   *)
(* or children.  Implicit discovery on a link entity, whose relations are  *)
(* two many-to-one relations to other entities, finishes with both in      *)
(* parents and no children.                                                *)
(***************************************************************************)
ManyToManyEntity == \E f \in EntityFields : many_to_many(f)

LinkEntity ==
    /\ Cardinality(EntityManyToOne) = 2
    /\ EntityFields \ EntityScalars = EntityManyToOne
    /\ \A f \in EntityManyToOne : F(f).related_model # kwargs.model

(* Nothing but the model, skip_index_fields and the flags is supplied. *)
PlainImplicitCall ==
    /\ ~ExplicitArguments
    /\ kwargs.facets.members = {}
    /\ kwargs.detailed_parents.members = {}
    /\ kwargs.detailed_children.members = {}
    /\ kwargs.default_sorting_field = NoneField

C11_ManyToMany ==
    /\ MustReject(~ExplicitArguments /\ ManyToManyEntity)
    /\ pc = "done" => \A f \in self.parents \cup self.children : ~many_to_many(f)
    /\ (Terminal /\ Validated /\ PlainImplicitCall /\ LinkEntity)
        => /\ pc = "done"
           /\ error = "none"
           /\ self.parents = EntityManyToOne
           /\ self.children = {}

(* Implicit discovery met the many-to-many field an entity declares and failed. *)
C11_Witness ==
    /\ RejectedAsMalformed
    /\ mode = "implicit"
    /\ \E f \in EntityFields : F(f).cls = "ManyToManyField"

(***************************************************************************)
(* C12  With use_joins, a composite relation of the entity (more than one  *)
(* column pair) that is supplied as a parent or met by implicit discovery  *)
(* ends the construction in RequestMalformed.                              *)
(***************************************************************************)
CompositeRelations ==
    {f \in EntityFields : IsField(f) /\ is_composite_foreign_key(f)}

C12_CompositeRejected ==
    MustReject(/\ kwargs.use_joins
               /\ \/ CompositeRelations \cap kwargs.parents # {}
                  \/ ~ExplicitArguments /\ CompositeRelations # {})

(***************************************************************************)
(* C13  A field of a storage type without a Typesense type (binary, file,  *)
(* image, duration, time of day) ends the construction in RequestMalformed *)
(* when it is in index_fields or when the entity is resolved by implicit   *)
(* discovery.  An explicit call naming only index_fields, all of them with *)
(* a Typesense type, finishes although the entity has such a field.        *)
(***************************************************************************)
Unsupported(f) ==
    F(f).related_model = "" /\ F(f).name # "id" /\ F(f).cls \notin DOMAIN mapped_field_types

C13_UnsupportedType ==
    /\ MustReject(\E f \in kwargs.index_fields : Unsupported(f))
    /\ MustReject(~ExplicitArguments /\ \E f \in EntityScalars : Unsupported(f))
    /\ (Terminal /\ Validated /\ OnlyIndexFieldsSupplied
            /\ ~SameNameTwice(kwargs.index_fields)
            /\ \E f \in EntityScalars : Unsupported(f))
        => pc = "done"

(* The type mapping rejected a selected duration field. *)
C13_Witness ==
    /\ RejectedAsMalformed
    /\ self.typesense_fields = <<>>
    /\ self.facetable_fields # {}
    /\ \E f \in self.index_fields : F(f).cls = "DurationField"
    /\ \A f \in self.index_fields : F(f).cls = "DurationField" \/ TypeMapped(f)

(***************************************************************************)
(* C14  Decimal width rule.  Every decimal field of precision p and scale  *)
(* s that is selected is emitted, with type float32 exactly when           *)
(* p - s <= 38 and s <= 7 and with type float64 otherwise; a float field   *)
(* is emitted with type float32.                                           *)
(***************************************************************************)
WidthRule(f) ==
    IF F(f).cls = "FloatField" THEN "float32"
    ELSE IF F(f).max_digits - F(f).decimal_places <= 38 /\ F(f).decimal_places <= 7
    THEN "float32"
    ELSE "float64"

OnlyFloatsIndexed ==
    /\ kwargs.index_fields # {}
    /\ kwargs.skip_index_fields = {} /\ kwargs.parents = {}
    /\ kwargs.children = {} /\ kwargs.geopoints = {}
    /\ kwargs.facets = SetOrAll(FALSE, {})
    /\ kwargs.detailed_parents = SetOrAll(FALSE, {})
    /\ kwargs.detailed_children = SetOrAll(FALSE, {})
    /\ kwargs.default_sorting_field = NoneField
    /\ \A f \in kwargs.index_fields : F(f).cls \in {"DecimalField", "FloatField"}

C14_DecimalWidth ==
    /\ pc = "done" =>
            \A i \in DOMAIN EmittedScalars :
                F(EmittedScalars[i]).cls \in {"DecimalField", "FloatField"}
                    => self.typesense_fields[i].type = WidthRule(EmittedScalars[i])
    /\ (Terminal /\ Validated /\ OnlyFloatsIndexed) => pc = "done"

(***************************************************************************)
(* C15  Geopoint emission.  A finished construction has, for each pair     *)
(* (a, b) of geopoints, exactly one emitted field of type geopoint, named  *)
(* <name of a>_<name of b>, and emits no member of a pair as a scalar      *)
(* field.                                                                  *)
(***************************************************************************)
GeopointFields ==
    {i \in DOMAIN self.typesense_fields : self.typesense_fields[i].type = "geopoint"}

C15_GeopointEmission ==
    pc = "done" =>
        /\ Cardinality(GeopointFields) = Cardinality(kwargs.geopoints)
        /\ \A e \in kwargs.geopoints :
            /\ Cardinality({i \in GeopointFields :
                    self.typesense_fields[i].name
                        = F(e.elems[1]).name \o "_" \o F(e.elems[2]).name}) = 1
            /\ \A i \in DOMAIN EmittedScalars :
                    EmittedScalars[i] \notin {e.elems[1], e.elems[2]}

(***************************************************************************)
(* C16  A geopoints entry that is not a 2-tuple (a bare field, a tuple of  *)
(* another length) ends the construction in TypeError; a 2-tuple with a    *)
(* member that is neither a float nor a decimal field ends it in           *)
(* RequestMalformed.                                                       *)
(***************************************************************************)
OnlyGeopointsSupplied ==
    /\ kwargs.geopoints # {}
    /\ kwargs.index_fields = {} /\ kwargs.skip_index_fields = {}
    /\ kwargs.parents = {} /\ kwargs.children = {}

C16_GeopointArity ==
    /\ (Terminal /\ Validated /\ OnlyGeopointsSupplied /\ ~WellTypedGeopoints)
        => (pc = "failed" /\ error = "TypeError")
    /\ MustReject(\E e \in kwargs.geopoints :
                      \E i \in DOMAIN e.elems : F(e.elems[i]).cls \notin mapped_geopoint_types)

(***************************************************************************)
(* C17  The default sorting field of a finished construction is numeric or *)
(* date typed, is not the primary key and is in the resolved index_fields  *)
(* or in skip_index_fields; a call whose default_sorting_field is not so   *)
(* ends in RequestMalformed.                                               *)
(***************************************************************************)
NumericOrDate(f) ==
    F(f).cls \in {"FloatField", "DecimalField", "IntegerField", "BigIntegerField",
                  "SmallIntegerField", "PositiveIntegerField", "PositiveBigIntegerField",
                  "PositiveSmallIntegerField", "AutoField", "BigAutoField",
                  "SmallAutoField", "DateField", "DateTimeField"}

C17_DefaultSortingField ==
    /\ (pc = "done" /\ self.default_sorting_field # NoneField) =>
        /\ NumericOrDate(self.default_sorting_field)
        /\ ~F(self.default_sorting_field).primary_key
        /\ self.default_sorting_field \in self.index_fields \cup self.skip_index_fields
    /\ MustReject(/\ kwargs.default_sorting_field # NoneField
                  /\ \/ ~NumericOrDate(kwargs.default_sorting_field)
                     \/ F(kwargs.default_sorting_field).primary_key
                     \/ kwargs.default_sorting_field
                            \notin self.index_fields \cup self.skip_index_fields)

(***************************************************************************)
(* C18  A default_sorting_field that is listed in skip_index_fields, and   *)
(* so is not in the resolved index_fields, ends the construction in        *)
(* RequestMalformed.                                                       *)
(***************************************************************************)
C18_SkippedSortingField ==
    MustReject(/\ kwargs.default_sorting_field # NoneField
               /\ kwargs.default_sorting_field \in kwargs.skip_index_fields
               /\ kwargs.default_sorting_field \notin self.index_fields)

(***************************************************************************)
(* C19  Warnings never abort.  A finished construction whose index_fields  *)
(* or skip_index_fields hold a field of another entity, or whose facets    *)
(* meet parents without use_joins, has issued the warning and keeps the    *)
(* sets as supplied: the foreign scalar field is emitted and the relation  *)
(* stays in facets.  The statements that warn change neither the           *)
(* attributes nor the control state of the construction.                   *)
(***************************************************************************)
ForeignSelected == (kwargs.index_fields \cup kwargs.skip_index_fields) \ EntityFields

NotInModelWarning == "not present in the model"

FacetWarning == "Facetting on relation only affects JOINs"

(* The frame apart from the warnings issued. *)
Quiet(fr) == [fr EXCEPT !.warned = <<>>]

(* The frame of an explicit call at the statements that warn. *)
BeforeMismatchChecks(fr) ==
    Then(Then(_handle_skipped_indexed_intersection(fr),
         _handle_geopoints_in_index_fields),
         _handle_relations_in_index_fields)

C19_WarningsNeverAbort ==
    /\ (pc = "done" /\ ForeignSelected # {}) =>
        /\ \E i \in DOMAIN warned : warned[i] = NotInModelWarning
        /\ self.skip_index_fields = kwargs.skip_index_fields
        /\ kwargs.index_fields \subseteq self.index_fields
        /\ \A f \in ForeignSelected :
                F(f).related_model = "" =>
                    \E i \in DOMAIN EmittedScalars :
                        /\ EmittedScalars[i] = f
                        /\ self.typesense_fields[i].name = F(f).name
    /\ (pc = "done" /\ self.facets \cap self.parents # {} /\ ~self.use_joins) =>
        /\ \E i \in DOMAIN warned : warned[i] = FacetWarning
        /\ ~kwargs.facets.all => self.facets = kwargs.facets.members
    /\ pc = "_handle_fields" =>
        LET reached == BeforeMismatchChecks(Frame)
        IN  /\ Quiet(_handle_mismatched_fields(reached)) = Quiet(reached)
            /\ Quiet(_handle_mismatched_skips(reached)) = Quiet(reached)
            /\ Quiet(_handle_mismatched_skips(Frame)) = Quiet(Frame)
    /\ pc = "_handle_facets" => Quiet(_handle_facets(Frame)) = Quiet(Frame)

(* A construction finished after both warnings and emitted the foreign field. *)
C19_Witness ==
    /\ pc = "done"
    /\ \E i, j \in DOMAIN warned : warned[i] = NotInModelWarning /\ warned[j] = FacetWarning
    /\ \E f \in ForeignSelected : \E i \in DOMAIN EmittedScalars : EmittedScalars[i] = f

(***************************************************************************)
(* C20  Construction never mutates its inputs.  At every point of a call,  *)
(* finished or failed, implicit or explicit, each set object the caller    *)
(* passed has the members it had when the call began, so a second call     *)
(* from the same objects gets the same arguments.                          *)
(***************************************************************************)
Kwargs_of_caller == [kwargs EXCEPT
    !.index_fields = caller.index_fields,
    !.skip_index_fields = caller.skip_index_fields,
    !.parents = caller.parents,
    !.children = caller.children,
    !.geopoints = caller.geopoints,
    !.facets = [@ EXCEPT !.members = caller.facets],
    !.detailed_parents = [@ EXCEPT !.members = caller.detailed_parents],
    !.detailed_children = [@ EXCEPT !.members = caller.detailed_children]]

C20_InputsNotMutated ==
    /\ caller = CallerSets(kwargs)
    /\ Terminal => Kwargs_of_caller = kwargs

(* An explicit call finished with facets = True: self.index_fields is     *)
(* still bound to the caller's set, self.facets to the union the           *)
(* constructor made, and the geopoint fields were appended to              *)
(* typesense_fields in place.                                              *)
C20_Witness ==
    /\ pc = "done"
    /\ mode = "explicit"
    /\ refs.index_fields = "index_fields"
    /\ refs.facets = Own("facetable_fields")
    /\ caller.index_fields # {}
    /\ GeopointFields # {}

(***************************************************************************)
(* C21  Determinism and order.  As claimed: the scalar fields are emitted  *)
(* in the insertion order of the resolved set, that is, for an explicit    *)
(* call with no skipped scalar, in the order index_fields listed them.     *)
(***************************************************************************)
RECURSIVE FirstOccurrences(_)
FirstOccurrences(display) ==
    IF display = <<>> THEN <<>>
    ELSE LET front == FirstOccurrences(SubSeq(display, 1, Len(display) - 1))
             last == display[Len(display)]
         IN  IF last \in Range(front) THEN front ELSE Append(front, last)

ResolvedScalars ==
    self.index_fields \cup get_non_relation_fields_in_set(self.skip_index_fields)

HashRank(f, S) == Cardinality({g \in S : FieldHash(g) < FieldHash(f)}) + 1

RelationsIn(fields) == {f \in fields : F(f).related_model # ""}

C22_NoRelationSelectedAsClaimed ==
    pc = "done" =>
        RelationsIn(self.index_fields \cup self.skip_index_fields) = {}

(***************************************************************************)
(* C22  Relations among the selected fields, as the code has it.  A        *)
(* finished construction has no relation in index_fields, and a call       *)
(* whose index_fields holds a relation ends in RequestMalformed;           *)
(* skip_index_fields may name relations.                                   *)
(***************************************************************************)
C22_NoRelationIndexed ==
    /\ pc = "done" => RelationsIn(self.index_fields) = {}
    /\ MustReject(RelationsIn(kwargs.index_fields) # {})

(* A call that put a relation in index_fields, and none in                 *)
(* skip_index_fields, was rejected.                                        *)
C22_Witness ==
    /\ RejectedAsMalformed
    /\ Validated
    /\ RelationsIn(kwargs.index_fields) # {}
    /\ RelationsIn(kwargs.skip_index_fields) = {}
    /\ kwargs.index_fields \cap kwargs.skip_index_fields = {}

(***************************************************************************)
(* C23  Every emitted field carries an optional attribute: the             *)
(* nullability of the field for a scalar field, the nullability of either  *)
(* member for a geopoint field, the nullability of the relation for a      *)
(* join field or a nested parent field.                                    *)
(***************************************************************************)
HasKey(entry, key, value) == key \in DOMAIN entry /\ entry[key] = value

C23_OptionalAttribute ==
    pc = "done" =>
        /\ \A i \in DOMAIN EmittedScalars :
            HasKey(self.typesense_fields[i], "optional", F(EmittedScalars[i]).null)
        /\ \A i \in GeopointFields : "optional" \in DOMAIN self.typesense_fields[i]
        /\ \A i \in DOMAIN EmittedJoins :
            HasKey(self.typesense_relations[i], "optional", F(EmittedJoins[i]).null)
        /\ \A i \in DOMAIN self.typesense_relations :
            "optional" \in DOMAIN self.typesense_relations[i]

(***************************************************************************)
(* C24  Every emitted scalar field carries a sort flag; with no sorting    *)
(* fields supplied it is true for the integer, float, decimal, date and    *)
(* datetime fields and false for the others.                               *)
(***************************************************************************)
C24_SortFlag ==
    pc = "done" =>
        \A i \in DOMAIN EmittedScalars :
            HasKey(self.typesense_fields[i], "sort", NumericOrDate(EmittedScalars[i]))

(***************************************************************************)
(* C25  Scalar emission.  A finished construction emits one scalar field   *)
(* for each member of index_fields and each non-relation member of         *)
(* skip_index_fields, and no other; its index flag is true exactly when    *)
(* the field is in index_fields, which is exactly when it is not in        *)
(* skip_index_fields, and its facet flag is true exactly when the field    *)
(* is in facets.                                                           *)
(***************************************************************************)
C25_ScalarEmission ==
    pc = "done" =>
        /\ Len(self.typesense_fields) - Cardinality(GeopointFields)
              = Cardinality(self.index_fields \cup
                    {f \in self.skip_index_fields : F(f).related_model = ""})
        /\ \A i \in DOMAIN EmittedScalars :
            LET field == EmittedScalars[i]
                entry == self.typesense_fields[i]
            IN  /\ entry.name = F(field).name
                /\ entry.type # "geopoint"
                /\ entry.index = (field \in self.index_fields)
                /\ entry.index = (field \notin self.skip_index_fields)
                /\ entry.facet = (field \in self.facets)

(* A finished explicit call that emitted an indexed facet and a skipped    *)
(* field.                                                                  *)
C25_Witness ==
    /\ pc = "done"
    /\ \E i, j \in DOMAIN EmittedScalars :
        /\ self.typesense_fields[i].index /\ self.typesense_fields[i].facet
        /\ EmittedScalars[j] \in self.skip_index_fields
        /\ ~self.typesense_fields[j].index

(***************************************************************************)
(* C26  Nested-object fields.  A finished construction emits, with or      *)
(* without use_joins, one field of type "object" for each member of        *)
(* detailed_parents and one of type "object[]" for each member of          *)
(* detailed_children, named after the relation, with index true exactly    *)
(* when the relation is not in skip_index_fields and facet false even      *)
(* when the relation is in facets.  typesense_relations holds the join     *)
(* fields first, then the "object" fields, then the "object[]" fields.     *)
(***************************************************************************)
NestedEntries(type, from, count, relations) ==
    /\ \A i \in (from + 1)..(from + count) : self.typesense_relations[i].type = type
    /\ \A relation \in relations :
        Cardinality({i \in (from + 1)..(from + count) :
            /\ self.typesense_relations[i].name = F(relation).name
            /\ self.typesense_relations[i].index
                    = (relation \notin self.skip_index_fields)
            /\ self.typesense_relations[i].facet = FALSE}) = 1

C26_NestedObjects ==
    pc = "done" =>
        LET joins == Len(EmittedJoins)
            objects == Cardinality(self.detailed_parents)
            arrays == Cardinality(self.detailed_children)
        IN  /\ Len(self.typesense_relations) = joins + objects + arrays
            /\ \A i \in 1..joins :
                self.typesense_relations[i].type \notin {"object", "object[]"}
            /\ NestedEntries("object", joins, objects, self.detailed_parents)
            /\ NestedEntries("object[]", joins + objects, arrays,
                             self.detailed_children)

(* A finished call without joins whose detailed parent is in facets and    *)
(* which has a detailed child too.                                         *)
C26_Witness ==
    /\ pc = "done"
    /\ ~self.use_joins
    /\ self.detailed_parents \cap self.facets # {}
    /\ self.detailed_children # {}

(***************************************************************************)
(* C27  Implicit discovery classifies every relation.  A construction      *)
(* finished in the implicit mode has every relation of the entity in       *)
(* parents or in children; a relation it cannot classify ends the          *)
(* construction in RequestMalformed instead.                               *)
(***************************************************************************)
C27_EveryRelationClassified ==
    (pc = "done" /\ mode = "implicit") =>
        RelationsIn(EntityFields) \subseteq self.parents \cup self.children

(***************************************************************************)
(* C28  Default sorting field acceptance.  Once the fields are resolved,   *)
(* a default_sorting_field that is not the primary key, is in the          *)
(* resolved index_fields and has a numeric or date type of any width is    *)
(* accepted: it is stored as default_sorting_field whatever happens in     *)
(* the later steps.                                                        *)
(***************************************************************************)
AfterHandleFields ==
    Then(InitAttributes(kwargs, _validate_client_and_model(kwargs, Call(kwargs))),
         _handle_fields)

C28_SortingFieldAccepted ==
    (/\ Terminal
     /\ Validated
     /\ AfterHandleFields.pc # "failed"
     /\ kwargs.default_sorting_field # NoneField
     /\ ~F(kwargs.default_sorting_field).primary_key
     /\ F(kwargs.default_sorting_field).name # "id"
     /\ NumericOrDate(kwargs.default_sorting_field)
     /\ kwargs.default_sorting_field \in AfterHandleFields.self.index_fields) =>
        self.default_sorting_field = kwargs.default_sorting_field

(***************************************************************************)
(* C29  No facet without an index.  In a finished construction no emitted  *)
(* field, scalar, geopoint, join or nested, has facet true and index       *)
(* false.                                                                  *)
(***************************************************************************)
C29_NoUnindexedFacet ==
    pc = "done" =>
        \A i \in DOMAIN EmittedFields :
            EmittedFields[i].facet => EmittedFields[i].index

(***************************************************************************)
(* C30  The mismatch warning is for fields of another entity only.  When   *)
(* every member of index_fields and of skip_index_fields is a field or a   *)
(* relation of the entity itself, the warning "not present in the model"   *)
(* is never issued.                                                        *)
(***************************************************************************)
C30_NoSpuriousMismatch ==
    (/\ Validated
     /\ kwargs.index_fields \cup kwargs.skip_index_fields \subseteq EntityFields) =>
        \A i \in DOMAIN warned : warned[i] # NotInModelWarning

====
